---- MODULE Spec2Model ----
(***************************************************************************)
(* Chef Digital: the recipe ingestion pipeline, the recipe table and the   *)
(* search / update / discover routes.                                      *)
(*                                                                         *)
(* Modelled from docs "Implementation Blueprint: Chef Digital": the Prisma *)
(* schema, the /api/recipes/ingest handler, groqFormatRecipe and the       *)
(* phase descriptions of /update, /search and /discover.  What the         *)
(* repository only calls but does not define (parseRecipeResponse, the     *)
(* error outcomes of /update and /discover) follows the design document.   *)
(***************************************************************************)
EXTENDS Integers, Sequences, FiniteSets, TLC

\* Number of requests that may be in flight (and interleave) at once.
MaxSlots == 2

Slots == 1..MaxSlots

(***************************************************************************)
(* Values                                                                  *)
(***************************************************************************)

\* A string is a sequence of characters where its content matters (the
\* extracted text); titles, ingredient words and steps are atoms.
Space == " "

NoUrl == "undefined"

NotProvided == "Not provided"

VideoUrl == "https://video.example/v1"

PageUrl1 == "https://recipes.example/lasagna"

PageUrl2 == "https://recipes.example/pesto"

Urls == {VideoUrl, PageUrl1, PageUrl2}

\* Raw uploads a client could attach to a request body.
RawImageBytes == "RAW_IMAGE_BYTES"

RawVideoBytes == "RAW_VIDEO_BYTES"

RawBytes == {RawImageBytes, RawVideoBytes}

\* The request bodies POSTed to /api/recipes/ingest.
Bodies ==
  { [extractedText |-> <<"a">>],
    [extractedText |-> <<" ", "a", " ">>, sourceUrl |-> VideoUrl],
    [extractedText |-> <<" ">>, title |-> "Lasagna"],
    [extractedText |-> <<"a">>, image |-> RawImageBytes],
    [sourceUrl |-> VideoUrl, video |-> RawVideoBytes],
    [extractedText |-> <<"a">>, sourceUrl |-> "not a url"] }

RECURSIVE TrimLeft(_)
TrimLeft(t) ==
  IF t # <<>> /\ Head(t) = Space THEN TrimLeft(Tail(t)) ELSE t

RECURSIVE TrimRight(_)
TrimRight(t) ==
  IF t # <<>> /\ t[Len(t)] = Space THEN TrimRight(SubSeq(t, 1, Len(t) - 1)) ELSE t

\* String.prototype.trim
Trim(t) == TrimRight(TrimLeft(t))

IsBlank(t) == Trim(t) = <<>>

Restrict(f, keys) == [k \in (DOMAIN f) \cap keys |-> f[k]]

(***************************************************************************)
(* RecipeInput (Zod schema) of the ingest route                            *)
(***************************************************************************)

RecipeInputKeys == {"title", "sourceUrl", "extractedText"}

\* z.object(...) without .strict()/.passthrough(): unknown keys are stripped.
\* extractedText: z.string() is required and takes every string, the empty
\* one included; sourceUrl: z.string().url().optional().
RecipeInputValid(body) ==
  /\ "extractedText" \in DOMAIN body
  /\ ("sourceUrl" \in DOMAIN body => body.sourceUrl \in Urls)

RecipeInputParse(body) ==
  IF RecipeInputValid(body)
  THEN [ok |-> TRUE, value |-> Restrict(body, RecipeInputKeys)]
  ELSE [ok |-> FALSE, value |-> <<>>]

(***************************************************************************)
(* groqFormatRecipe: the prompt, the model's reply, parseRecipeResponse    *)
(***************************************************************************)

\* The template literal: Text: """${text}""" and
\* Source: ${sourceUrl || "Not provided"}.
BuildPrompt(text, sourceUrl) ==
  [text |-> text, source |-> IF sourceUrl = NoUrl THEN NotProvided ELSE sourceUrl]

Line(kind, text) == [kind |-> kind, text |-> text]

\* Replies of the model, as the lines of the requested layout.  The model
\* is free in what it answers; these are the canned replies of the tests.
ReplyNames ==
  {"lasagna", "lasagnaAlt", "pesto", "noInstructions", "emptyCategory",
   "noTitle", "noCategory"}

ReplyLines(name, source) ==
  CASE name = "lasagna" ->
         << Line("title", "Lasagna"), Line("source", source),
            Line("ingredients", ""),
            Line("category", "Base"), Line("ingredient", "garlic"),
            Line("ingredient", "pasta"),
            Line("category", "Sauce"), Line("ingredient", "Pesto"),
            Line("instructions", ""),
            Line("step", "boil"), Line("step", "bake"), Line("step", "serve") >>
    [] name = "lasagnaAlt" ->
         << Line("title", "Lasagna"), Line("source", source),
            Line("ingredients", ""),
            Line("category", "Base"), Line("ingredient", "basil"),
            Line("instructions", ""), Line("step", "bake") >>
    [] name = "pesto" ->
         << Line("title", "Pesto"), Line("source", source),
            Line("ingredients", ""),
            Line("category", "Base"), Line("ingredient", "basil"),
            Line("instructions", ""), Line("step", "blend") >>
    [] name = "noInstructions" ->
         << Line("title", "Pesto"), Line("source", source),
            Line("ingredients", ""),
            Line("category", "Base"), Line("ingredient", "basil") >>
    [] name = "emptyCategory" ->
         << Line("title", "Pesto"), Line("source", source),
            Line("ingredients", ""),
            Line("category", "Base"),
            Line("category", "Sauce"), Line("ingredient", "basil"),
            Line("instructions", ""), Line("step", "blend") >>
    [] name = "noTitle" ->
         << Line("source", source),
            Line("ingredients", ""),
            Line("category", "Base"), Line("ingredient", "basil"),
            Line("instructions", ""), Line("step", "blend") >>
    [] OTHER ->
         << Line("title", "Pesto"), Line("source", source),
            Line("ingredients", ""),
            Line("instructions", ""), Line("step", "blend") >>

NoRecipe ==
  [title |-> "", sourceUrl |-> NoUrl, ingredients |-> <<>>, instructions |-> <<>>]

\* One line of the reply folded into the recipe read so far.
ParseLine(acc, ln) ==
  CASE ln.kind = "title" -> [acc EXCEPT !.title = ln.text]
    [] ln.kind = "source" ->
         [acc EXCEPT !.sourceUrl = IF ln.text = NotProvided THEN NoUrl ELSE ln.text]
    [] ln.kind = "category" ->
         [acc EXCEPT !.ingredients = Append(@, [name |-> ln.text, items |-> <<>>])]
    [] ln.kind = "ingredient" /\ acc.ingredients # <<>> ->
         [acc EXCEPT !.ingredients[Len(acc.ingredients)].items = Append(@, ln.text)]
    [] ln.kind = "step" -> [acc EXCEPT !.instructions = Append(@, ln.text)]
    [] OTHER -> acc

RECURSIVE ParseLines(_, _)
ParseLines(acc, lines) ==
  IF lines = <<>> THEN acc ELSE ParseLines(ParseLine(acc, Head(lines)), Tail(lines))

\* The invariants of a recipe record: a title, at least one ingredient
\* category, no empty category, at least one instruction step.
ValidRecipe(r) ==
  /\ r.title # ""
  /\ r.ingredients # <<>>
  /\ \A i \in 1..Len(r.ingredients) : r.ingredients[i].items # <<>>
  /\ r.instructions # <<>>

ParseRecipeResponse(lines) ==
  LET r == ParseLines(NoRecipe, lines)
  IN  IF ValidRecipe(r)
      THEN [ok |-> TRUE, error |-> "", recipe |-> r]
      ELSE [ok |-> FALSE, error |-> "MalformedResponseError", recipe |-> NoRecipe]

\* Every way one call of groqFormatRecipe(text, sourceUrl) can end: the
\* chat completion rejects, or it answers and the answer is parsed.
GroqFormatRecipe(text, sourceUrl) ==
  LET prompt == BuildPrompt(text, sourceUrl)
  IN  {[ok |-> FALSE, error |-> "GroqAPIError", recipe |-> NoRecipe]}
      \cup {ParseRecipeResponse(ReplyLines(n, prompt.source)) : n \in ReplyNames}

(***************************************************************************)
(* The recipes table (Prisma schema) and its queries                       *)
(***************************************************************************)

VARIABLES
  store,   \* the rows of the recipes table
  nextId,  \* stands for uuid(): the next fresh id
  req      \* the requests in flight, one per slot

vars == <<store, nextId, req>>

Columns == {"id", "title", "sourceUrl", "ingredients", "instructions"}

HasTitle(rows, title) == \E r \in rows : r.title = title

\* createdAt and updatedAt are set by the database and read by no route;
\* they are left out.
Row(id, data) ==
  [id |-> id, title |-> data.title, sourceUrl |-> data.sourceUrl,
   ingredients |-> data.ingredients, instructions |-> data.instructions]

\* Variant: the table without the unique index on title.
PrismaCreateNoUnique(rows, id, data) ==
  [ok |-> TRUE, error |-> "", rows |-> rows \cup {Row(id, data)},
   saved |-> {Row(id, data)}]

\* prisma.recipe.create({ data }): the insert is one statement and the
\* unique index on title decides it; a second row with the title is
\* refused (Prisma's unique-constraint error, the DuplicateTitleError of
\* the design) and the table is left as it was.
PrismaCreate(rows, id, data) ==
  IF HasTitle(rows, data.title)
  THEN [ok |-> FALSE, error |-> "DuplicateTitleError", rows |-> rows, saved |-> {}]
  ELSE [ok |-> TRUE, error |-> "", rows |-> rows \cup {Row(id, data)},
        saved |-> {Row(id, data)}]

FindByTitle(rows, q) == {r \in rows : r.title = q}

\* Full-text search over the ingredient text: a row matches when the term
\* is one of its ingredient words.
SearchByIngredient(rows, q) ==
  {r \in rows :
     \E i \in 1..Len(r.ingredients) :
       \E j \in 1..Len(r.ingredients[i].items) : r.ingredients[i].items[j] = q}

ListAll(rows) == rows

\* Variant: the ingredient search tried before the title.
SearchIngredientFirst(rows, q) ==
  LET byIngredient == SearchByIngredient(rows, q)
      byTitle == FindByTitle(rows, q)
  IN  IF byIngredient # {}
      THEN [result |-> byIngredient, tiers |-> <<"ingredient">>]
      ELSE IF byTitle # {}
      THEN [result |-> byTitle, tiers |-> <<"ingredient", "title">>]
      ELSE [result |-> ListAll(rows), tiers |-> <<"ingredient", "title", "all">>]

\* /search: exact title; if no match, ingredient full-text search; if
\* empty, all recipes.  tiers lists the queries that were run.
Search(rows, q) ==
  LET byTitle == FindByTitle(rows, q)
  IN  IF byTitle # {}
      THEN [result |-> byTitle, tiers |-> <<"title">>]
      ELSE LET byIngredient == SearchByIngredient(rows, q)
           IN  IF byIngredient # {}
               THEN [result |-> byIngredient, tiers |-> <<"title", "ingredient">>]
               ELSE [result |-> ListAll(rows),
                     tiers |-> <<"title", "ingredient", "all">>]

Queries == {"Lasagna", "Pesto", "garlic", "basil", "zzz-no-match"}

\* The edits a user submits from the form of /update.
UpdateFields ==
  { [title |-> "Pesto"],
    [title |-> "Tiramisu"],
    [title |-> ""],
    [ingredients |-> <<>>],
    [ingredients |-> <<[name |-> "Base", items |-> <<>>]>>],
    [instructions |-> <<>>],
    [instructions |-> <<"stir">>, sourceUrl |-> PageUrl1] }

Merge(row, fields) ==
  [k \in DOMAIN row |-> IF k \in DOMAIN fields THEN fields[k] ELSE row[k]]

FindById(rows, id) == {r \in rows : r.id = id}

\* An update of a recipe that does not exist.
UpdateMissing(rows) ==
  [ok |-> FALSE, error |-> "NotFoundError", rows |-> rows, saved |-> {}]

\* Variant: the changes written without validating the format.
UpdateNoValidation(rows, id, fields) ==
  IF FindById(rows, id) = {} THEN UpdateMissing(rows)
  ELSE LET old == CHOOSE r \in rows : r.id = id
           merged == Merge(old, fields)
       IN  IF HasTitle(rows \ {old}, merged.title)
           THEN [ok |-> FALSE, error |-> "DuplicateTitleError", rows |-> rows,
                 saved |-> {}]
           ELSE [ok |-> TRUE, error |-> "", rows |-> (rows \ {old}) \cup {merged},
                 saved |-> {merged}]

\* Variant: the update written to a table without the unique index.
UpdateIgnoringUnique(rows, id, fields) ==
  IF FindById(rows, id) = {} THEN UpdateMissing(rows)
  ELSE LET old == CHOOSE r \in rows : r.id = id
           merged == Merge(old, fields)
       IN  IF ~ ValidRecipe(merged)
           THEN [ok |-> FALSE, error |-> "ValidationError", rows |-> rows,
                 saved |-> {}]
           ELSE [ok |-> TRUE, error |-> "", rows |-> (rows \ {old}) \cup {merged},
                 saved |-> {merged}]

\* /update: apply the changes to the current recipe, validate the format,
\* update in the database (where the unique index on title still holds).
Update(rows, id, fields) ==
  IF FindById(rows, id) = {} THEN UpdateMissing(rows)
  ELSE LET old == CHOOSE r \in rows : r.id = id
           merged == Merge(old, fields)
       IN  IF ~ ValidRecipe(merged)
           THEN [ok |-> FALSE, error |-> "ValidationError", rows |-> rows,
                 saved |-> {}]
           ELSE IF HasTitle(rows \ {old}, merged.title)
           THEN [ok |-> FALSE, error |-> "DuplicateTitleError", rows |-> rows,
                 saved |-> {}]
           ELSE [ok |-> TRUE, error |-> "", rows |-> (rows \ {old}) \cup {merged},
                 saved |-> {merged}]

(***************************************************************************)
(* Requests                                                                *)
(***************************************************************************)

NoCalls == [llm |-> 0, search |-> 0, fetch |-> 0, create |-> 0]

\* A free slot.  kind: the route; pc: where the request stands; calls: the
\* external calls and table writes it has made so far.
Idle ==
  [kind |-> "none", pc |-> "idle", body |-> <<>>, parsed |-> <<>>,
   prompt |-> BuildPrompt(<<>>, NoUrl), recipe |-> NoRecipe, error |-> "",
   result |-> {}, tiers |-> <<>>, calls |-> NoCalls, query |-> "",
   urls |-> <<>>, id |-> 0, fields |-> <<>>]

Fail(r, error) == [r EXCEPT !.pc = "failed", !.error = error]

\* The recipes a table can hold before the requests at hand arrive.
SeedRecipe(name) == ParseRecipeResponse(ReplyLines(name, NotProvided)).recipe

SeedStores ==
  { {},
    {Row(1, SeedRecipe("lasagna"))},
    {Row(1, SeedRecipe("lasagna")), Row(2, SeedRecipe("pesto"))} }

Init ==
  /\ store \in SeedStores
  /\ nextId = Cardinality(store) + 1
  /\ req = [s \in Slots |-> Idle]

---------------------------------------------------------------------------
\* POST /api/recipes/ingest, up to its first await:
\*   const parsed = RecipeInput.parse(req.body);
\* A ZodError thrown here ends the request.
Receive(s, body) ==
  /\ req[s].kind = "none"
  /\ LET p == RecipeInputParse(body)
         r == [req[s] EXCEPT !.kind = "ingest", !.body = body]
     IN  req' = [req EXCEPT ![s] =
                   IF p.ok THEN [r EXCEPT !.pc = "parsed", !.parsed = p.value]
                   ELSE Fail(r, "ZodError")]
  /\ UNCHANGED <<store, nextId>>

SourceUrlOf(parsed) ==
  IF "sourceUrl" \in DOMAIN parsed THEN parsed.sourceUrl ELSE NoUrl

\* Variant: a handler that calls groqFormatRecipe again after a failure.
FormatWithRetry(s) ==
  /\ req[s].kind = "ingest"
  /\ req[s].pc = "parsed"
  /\ LET text == req[s].parsed.extractedText
         url == SourceUrlOf(req[s].parsed)
         r == [req[s] EXCEPT !.calls.llm = @ + 1, !.prompt = BuildPrompt(text, url)]
     IN  \E out \in GroqFormatRecipe(text, url) :
           req' = [req EXCEPT ![s] =
                     IF out.ok THEN [r EXCEPT !.pc = "formatted", !.recipe = out.recipe]
                     ELSE IF r.calls.llm < 2 THEN r ELSE Fail(r, out.error)]
  /\ UNCHANGED <<store, nextId>>

\*   const formatted = await groqFormatRecipe(parsed.extractedText, parsed.sourceUrl);
\* One chat completion; a rejection or a parse error propagates.
Format(s) ==
  /\ req[s].kind = "ingest"
  /\ req[s].pc = "parsed"
  /\ LET text == req[s].parsed.extractedText
         url == SourceUrlOf(req[s].parsed)
         r == [req[s] EXCEPT !.calls.llm = @ + 1, !.prompt = BuildPrompt(text, url)]
     IN  \E out \in GroqFormatRecipe(text, url) :
           req' = [req EXCEPT ![s] =
                     IF out.ok THEN [r EXCEPT !.pc = "formatted", !.recipe = out.recipe]
                     ELSE Fail(r, out.error)]
  /\ UNCHANGED <<store, nextId>>

\* Variant: the uploaded image written along with the recipe.
CreateDataWithBody(r) ==
  [r.recipe EXCEPT !.instructions =
     IF "image" \in DOMAIN r.body THEN <<r.body.image>> ELSE @]

\* What the handler hands to prisma.recipe.create: { data: formatted }.
CreateData(r) == r.recipe

\* Variant: create not held back until the recipe is formatted.
PersistUnformatted(s) ==
  /\ req[s].kind = "ingest"
  /\ req[s].pc \in {"parsed", "formatted"}
  /\ LET out == PrismaCreate(store, nextId, CreateData(req[s]))
         r == [req[s] EXCEPT !.calls.create = @ + 1]
     IN  /\ store' = out.rows
         /\ nextId' = IF out.ok THEN nextId + 1 ELSE nextId
         /\ req' = [req EXCEPT ![s] =
                      IF out.ok THEN [r EXCEPT !.pc = "done", !.result = out.saved]
                      ELSE Fail(r, out.error)]

\*   const saved = await prisma.recipe.create({ data: formatted });
\*   res.json(saved);
Persist(s) ==
  /\ req[s].kind = "ingest"
  /\ req[s].pc = "formatted"
  /\ LET out == PrismaCreate(store, nextId, CreateData(req[s]))
         r == [req[s] EXCEPT !.calls.create = @ + 1]
     IN  /\ store' = out.rows
         /\ nextId' = IF out.ok THEN nextId + 1 ELSE nextId
         /\ req' = [req EXCEPT ![s] =
                      IF out.ok THEN [r EXCEPT !.pc = "done", !.result = out.saved]
                      ELSE Fail(r, out.error)]

---------------------------------------------------------------------------
\* GET /search
SearchRequest(s, q) ==
  /\ req[s].kind = "none"
  /\ LET out == Search(store, q)
     IN  req' = [req EXCEPT ![s] =
                   [@ EXCEPT !.kind = "search", !.pc = "done", !.query = q,
                             !.result = out.result, !.tiers = out.tiers]]
  /\ UNCHANGED <<store, nextId>>

\* POST /update
UpdateRequest(s, id, fields) ==
  /\ req[s].kind = "none"
  /\ LET out == Update(store, id, fields)
         r == [req[s] EXCEPT !.kind = "update", !.id = id, !.fields = fields]
     IN  /\ store' = out.rows
         /\ req' = [req EXCEPT ![s] =
                      IF out.ok THEN [r EXCEPT !.pc = "done", !.result = out.saved]
                      ELSE Fail(r, out.error)]
  /\ UNCHANGED nextId

---------------------------------------------------------------------------
\* /discover.  What the Serper API can answer for a query, best hit first.
SerperResults == {<<>>, <<PageUrl1>>, <<PageUrl2, PageUrl1>>}

\* The readable text of a fetched page.
PageText(url) == IF url = PageUrl1 THEN <<"a">> ELSE <<"a", " ", "a">>

DiscoverQuery == "lasagna recipe"

\* Variant: an empty result list taken like any other.
DiscoverSearchProceed(r, hits) == [r EXCEPT !.pc = "found", !.urls = hits]

\* No result: NoResultsError, and the request ends.
DiscoverSearchOutcome(r, hits) ==
  IF hits = <<>> THEN Fail(r, "NoResultsError")
  ELSE [r EXCEPT !.pc = "found", !.urls = hits]

\* Backend calls the Serper API for relevant results.
DiscoverSearch(s) ==
  /\ req[s].kind = "none"
  /\ LET r == [req[s] EXCEPT !.kind = "discover", !.query = DiscoverQuery,
                             !.calls.search = @ + 1]
     IN  \/ req' = [req EXCEPT ![s] = Fail(r, "SerperAPIError")]
         \/ \E hits \in SerperResults :
              req' = [req EXCEPT ![s] = DiscoverSearchOutcome(r, hits)]
  /\ UNCHANGED <<store, nextId>>

\* Fetch the top result, extract readable content.
DiscoverFetch(s) ==
  /\ req[s].kind = "discover"
  /\ req[s].pc = "found"
  /\ LET r == [req[s] EXCEPT !.calls.fetch = @ + 1]
     IN  \/ req' = [req EXCEPT ![s] = Fail(r, "FetchError")]
         \/ req' = [req EXCEPT ![s] = [r EXCEPT !.pc = "fetched"]]
  /\ UNCHANGED <<store, nextId>>

\* Variant: the formatted recipe saved without waiting for confirmation.
DiscoverFormatAutoSave(s) ==
  /\ req[s].kind = "discover"
  /\ req[s].pc = "fetched"
  /\ LET url == Head(req[s].urls)
         text == PageText(url)
         r == [req[s] EXCEPT !.calls.llm = @ + 1, !.prompt = BuildPrompt(text, url)]
     IN  \E out \in GroqFormatRecipe(text, url) :
           LET made == PrismaCreate(store, nextId, out.recipe)
           IN  /\ req' = [req EXCEPT ![s] =
                            IF out.ok
                            THEN [r EXCEPT !.pc = "staged", !.recipe = out.recipe]
                            ELSE Fail(r, out.error)]
               /\ store' = IF out.ok THEN made.rows ELSE store
               /\ nextId' = IF out.ok /\ made.ok THEN nextId + 1 ELSE nextId

\* Send the text to Groq for structured formatting; display the result.
DiscoverFormat(s) ==
  /\ req[s].kind = "discover"
  /\ req[s].pc = "fetched"
  /\ LET url == Head(req[s].urls)
         text == PageText(url)
         r == [req[s] EXCEPT !.calls.llm = @ + 1, !.prompt = BuildPrompt(text, url)]
     IN  \E out \in GroqFormatRecipe(text, url) :
           req' = [req EXCEPT ![s] =
                     IF out.ok THEN [r EXCEPT !.pc = "staged", !.recipe = out.recipe]
                     ELSE Fail(r, out.error)]
  /\ UNCHANGED <<store, nextId>>

\* Add to the database only upon user confirmation.
Confirm(s) ==
  /\ req[s].kind = "discover"
  /\ req[s].pc = "staged"
  /\ LET out == PrismaCreate(store, nextId, req[s].recipe)
         r == [req[s] EXCEPT !.calls.create = @ + 1]
     IN  /\ store' = out.rows
         /\ nextId' = IF out.ok THEN nextId + 1 ELSE nextId
         /\ req' = [req EXCEPT ![s] =
                      IF out.ok THEN [r EXCEPT !.pc = "confirmed", !.result = out.saved]
                      ELSE Fail(r, out.error)]

---------------------------------------------------------------------------
Ingest(s) == (\E body \in Bodies : Receive(s, body)) \/ Format(s) \/ Persist(s)

Discover(s) == DiscoverSearch(s) \/ DiscoverFetch(s) \/ DiscoverFormat(s)

Next ==
  \E s \in Slots :
    \/ Ingest(s)
    \/ \E q \in Queries : SearchRequest(s, q)
    \/ \E id \in 1..nextId : \E fields \in UpdateFields : UpdateRequest(s, id, fields)
    \/ Discover(s)
    \/ Confirm(s)

Spec == Init /\ [][Next]_vars

(***************************************************************************)
(* Properties                                                              *)
(***************************************************************************)

IngredientWords(row) ==
  UNION {{row.ingredients[i].items[j] : j \in 1..Len(row.ingredients[i].items)} :
           i \in 1..Len(row.ingredients)}

RowsTitled(title) == {r \in store : r.title = title}

\* Slot s takes a step of the given route.
Starts(s, kind) == req[s].kind = "none" /\ req'[s].kind = kind

\* Slot s has called prisma.recipe.create (ingest's persist or the
\* confirmation of a discovered recipe) in this step.
Creates(s) == req'[s].calls.create = req[s].calls.create + 1

\* C1: search(query) answers with the first non-empty tier in the order
\* exact title, ingredient search, all recipes; a later tier is queried only
\* when every earlier one found nothing.
C1_SearchFirstNonEmptyTier ==
  [][\A s \in Slots :
       Starts(s, "search") =>
         LET q == req'[s].query
             byTitle == RowsTitled(q)
             byIngredient == {r \in store : q \in IngredientWords(r)}
             out == req'[s]
         IN  /\ out.pc = "done"
             /\ byTitle # {} => out.result = byTitle /\ out.tiers = <<"title">>
             /\ byTitle = {} /\ byIngredient # {} =>
                  out.result = byIngredient /\ out.tiers = <<"title", "ingredient">>
             /\ byTitle = {} /\ byIngredient = {} =>
                  out.result = store /\ out.tiers = <<"title", "ingredient", "all">>
             /\ store' = store]_vars

\* A title hit that ingredient search would have answered differently, and a
\* search that fell through to the full list.
C1_Witness ==
  \E s, u \in Slots :
    /\ req[s].kind = "search" /\ req[s].tiers = <<"title">>
    /\ req[s].result # {}
    /\ \E r \in store : req[s].query \in IngredientWords(r) /\ r \notin req[s].result
    /\ req[u].kind = "search" /\ req[u].tiers = <<"title", "ingredient", "all">>
    /\ Cardinality(req[u].result) = 2

\* C2: a create succeeds exactly when no row holds its title at the moment
\* of the insert and then adds one row; otherwise it fails with
\* DuplicateTitleError and leaves every row as it was.  So of two creates
\* of one free title, however interleaved, one succeeds and the other fails,
\* and no title is ever held by two rows.
C2_CreateTitleUnique ==
  [][/\ \A s \in Slots :
          Creates(s) =>
            LET title == req[s].recipe.title
            IN  IF RowsTitled(title) = {}
                THEN /\ req'[s].pc \in {"done", "confirmed"}
                     /\ store \subseteq store'
                     /\ Cardinality(store') = Cardinality(store) + 1
                     /\ req'[s].result = {r \in store' : r.title = title}
                ELSE /\ req'[s].pc = "failed"
                     /\ req'[s].error = "DuplicateTitleError"
                     /\ store' = store
     /\ \A r1, r2 \in store' : r1.title = r2.title => r1 = r2
     /\ \A s, u \in Slots :
          /\ s # u
          /\ req'[s].pc \in {"done", "confirmed"} /\ req'[s].kind \in {"ingest", "discover"}
          /\ req'[u].pc \in {"done", "confirmed"} /\ req'[u].kind \in {"ingest", "discover"}
          => req'[s].result # req'[u].result]_vars

\* Two ingests of the same title with different content: the first is
\* stored, the second refused, the stored row is the first's.
C2_Witness ==
  \E s, u \in Slots :
    /\ req[s].kind = "ingest" /\ req[s].pc = "done"
    /\ req[u].kind = "ingest" /\ req[u].pc = "failed"
    /\ req[u].error = "DuplicateTitleError"
    /\ req[u].recipe.title = req[s].recipe.title
    /\ req[u].recipe # req[s].recipe
    /\ RowsTitled(req[s].recipe.title) = req[s].result

IngestFailures == {"ZodError", "GroqAPIError", "MalformedResponseError"}

\* C3: in the add flow create is called only after the input was parsed and
\* then the normalizer succeeded; a request whose parse or normalization
\* fails never calls create and leaves the table unchanged.
C3_CreateOnlyAfterNormalize ==
  [][\A s \in Slots :
       req'[s].kind = "ingest" =>
         /\ req'[s].calls.llm >= 1 =>
              RecipeInputValid(req'[s].body) /\ req'[s].parsed # <<>>
         /\ req'[s].calls.create >= 1 =>
              /\ req'[s].calls.llm = 1
              /\ req'[s].recipe # NoRecipe
              /\ req[s].pc = "formatted" \/ req'[s] = req[s]
         /\ req'[s].pc = "failed" /\ req'[s].error \in IngestFailures =>
              /\ req'[s].calls.create = 0
              /\ req'[s] # req[s] => store' = store /\ nextId' = nextId]_vars

\* One add aborted by a malformed model reply, one that went through.
C3_Witness ==
  \E s, u \in Slots :
    /\ req[s].kind = "ingest" /\ req[s].pc = "failed"
    /\ req[s].error = "MalformedResponseError"
    /\ req[s].calls.llm = 1 /\ req[s].calls.create = 0
    /\ req[u].kind = "ingest" /\ req[u].pc = "done" /\ req[u].calls.create = 1
    /\ store = req[u].result

\* C4: no step of discover changes the table, whether it succeeds or fails;
\* a discovered recipe is stored only by the confirm step's create.
C4_DiscoverLeavesStore ==
  [][\A s \in Slots :
       (req'[s].kind = "discover" /\ req'[s] # req[s]) =>
         /\ ~ Creates(s) => store' = store /\ nextId' = nextId
         /\ store' # store =>
              /\ req[s].pc = "staged" /\ req'[s].pc = "confirmed"
              /\ store' = store \cup req'[s].result
              /\ \A r \in req'[s].result : r.title = req[s].recipe.title]_vars

\* A staged recipe that is not in the table, beside a confirmed one that is.
C4_Witness ==
  \E s, u \in Slots :
    /\ req[s].kind = "discover" /\ req[s].pc = "staged"
    /\ RowsTitled(req[s].recipe.title) = {}
    /\ req[u].kind = "discover" /\ req[u].pc = "confirmed"
    /\ req[u].result # {} /\ req[u].result \subseteq store

\* C5: when the web search answers with no result, discover fails with
\* NoResultsError and has fetched no page and called no model.
C5_NoResultsNoFetch ==
  \A s \in Slots :
    req[s].kind = "discover" =>
      /\ (req[s].urls = <<>> /\ req[s].error # "SerperAPIError") =>
           /\ req[s].pc = "failed" /\ req[s].error = "NoResultsError"
           /\ req[s].calls = [NoCalls EXCEPT !.search = 1]
      /\ req[s].error = "NoResultsError" => req[s].urls = <<>>
      /\ req[s].calls.fetch >= 1 \/ req[s].calls.llm >= 1 => req[s].urls # <<>>

C5_Witness ==
  \E s, u \in Slots :
    /\ req[s].kind = "discover" /\ req[s].error = "NoResultsError"
    /\ req[s].calls.search = 1 /\ req[s].calls.fetch = 0 /\ req[s].calls.llm = 0
    /\ req[u].kind = "discover" /\ req[u].calls.fetch = 1 /\ req[u].calls.llm = 1

TextOnly(row) ==
  /\ DOMAIN row = Columns
  /\ row.title \notin RawBytes
  /\ row.sourceUrl \in Urls \cup {NoUrl}
  /\ IngredientWords(row) \cap RawBytes = {}
  /\ \A i \in 1..Len(row.ingredients) : row.ingredients[i].name \notin RawBytes
  /\ \A i \in 1..Len(row.instructions) : row.instructions[i] \notin RawBytes

\* C6: no row ever holds raw image or video bytes: a row has the columns of
\* the schema, text from the normalizer and at most a source URL; what the
\* handler keeps of a request body is the text, the title and the URL.
C6_NoRawBytesStored ==
  /\ \A row \in store : TextOnly(row)
  /\ \A s \in Slots :
       (req[s].kind = "ingest" /\ req[s].pc # "failed") =>
         /\ DOMAIN req[s].parsed \subseteq RecipeInputKeys
         /\ "sourceUrl" \in DOMAIN req[s].parsed => req[s].parsed.sourceUrl \in Urls

\* A request that carried an image was stored, and a video came as its URL.
C6_Witness ==
  \E s, u \in Slots :
    /\ req[s].kind = "ingest" /\ req[s].pc = "done"
    /\ "image" \in DOMAIN req[s].body
    /\ req[s].result # {} /\ req[s].result \subseteq store
    /\ req[u].kind = "ingest" /\ req[u].pc = "done"
    /\ \E r \in req[u].result : r.sourceUrl = VideoUrl

\* C7: text that reaches the normalizer is the payload trimmed and is not
\* blank; a blank payload ends in EmptyInputError.
C7_TextTrimmedOrRejected ==
  \A s \in Slots :
    req[s].kind = "ingest" /\ "extractedText" \in DOMAIN req[s].body =>
      /\ req[s].calls.llm >= 1 =>
           /\ req[s].prompt.text = Trim(req[s].body.extractedText)
           /\ req[s].prompt.text # <<>>
      /\ IsBlank(req[s].body.extractedText) =>
           req[s].pc = "failed" /\ req[s].error = "EmptyInputError"

ExternalErrors == {"GroqAPIError", "SerperAPIError", "FetchError"}

\* C8: a request makes each external call at most once; once it has
\* failed it takes no further step, its error is the one the failing call
\* raised, and it holds and stores no recipe in place of the missing one.
C8_NoRetryNoDefault ==
  [][\A s \in Slots :
       /\ req'[s].calls.llm <= 1 /\ req'[s].calls.search <= 1
       /\ req'[s].calls.fetch <= 1
       /\ req[s].pc = "failed" => req'[s] = req[s]
       /\ (req'[s].pc = "failed" /\ req'[s] # req[s]) =>
            /\ req'[s].result = {}
            /\ req'[s].error \in ExternalErrors \cup {"MalformedResponseError"} =>
                 /\ req'[s].recipe = NoRecipe
                 /\ store' = store
            /\ req'[s].calls.llm > req[s].calls.llm =>
                 req'[s].error \in {"GroqAPIError", "MalformedResponseError"}
            /\ req'[s].calls.search > req[s].calls.search =>
                 req'[s].error \in {"SerperAPIError", "NoResultsError"}
            /\ req'[s].calls.fetch > req[s].calls.fetch =>
                 req'[s].error = "FetchError"]_vars

C8_Witness ==
  \E s, u \in Slots :
    /\ req[s].kind = "ingest" /\ req[s].pc = "failed"
    /\ req[s].error = "GroqAPIError" /\ req[s].calls.llm = 1
    /\ req[u].kind = "discover" /\ req[u].pc = "failed"
    /\ req[u].error = "FetchError" /\ req[u].calls.fetch = 1
    /\ req[u].calls.search = 1

WellFormed(row) ==
  /\ row.title # ""
  /\ Len(row.ingredients) >= 1
  /\ \A i \in 1..Len(row.ingredients) : Len(row.ingredients[i].items) >= 1
  /\ Len(row.instructions) >= 1

C10_UpdateChecked ==
  [][\A s \in Slots :
       Starts(s, "update") =>
         LET id == req'[s].id
             olds == {r \in store : r.id = id}
         IN  /\ olds = {} =>
                  /\ req'[s].pc = "failed" /\ req'[s].error = "NotFoundError"
                  /\ store' = store
             /\ \A old \in olds :
                  LET merged == Merge(old, req'[s].fields)
                      taken == \E r \in store \ {old} : r.title = merged.title
                  IN  IF WellFormed(merged) /\ ~ taken
                      THEN /\ req'[s].pc = "done"
                           /\ req'[s].result = {merged}
                           /\ merged.id = id
                           /\ store' = (store \ {old}) \cup {merged}
                           /\ {r.id : r \in store'} = {r.id : r \in store}
                      ELSE /\ req'[s].pc = "failed"
                           /\ req'[s].error # "NotFoundError"
                           /\ taken /\ WellFormed(merged) =>
                                req'[s].error = "DuplicateTitleError"
                           /\ store' = store]_vars

C10_Witness ==
  \E s, u \in Slots :
    /\ req[s].kind = "update" /\ req[s].pc = "failed"
    /\ req[s].error = "NotFoundError"
    /\ req[u].kind = "update" /\ req[u].pc = "done"
    /\ \E r \in store : r.id = req[u].id /\ r.title = "Tiramisu"

====
